---- MODULE Spec2Model ----
(***************************************************************************)
(* EcoSonicNet backend: the audio-to-prediction pipeline of                *)
(* backend/inference.py and the /api/predict handler of backend/app.py.    *)
(*                                                                         *)
(* Python strings are sequences of character codes (so that len() and the  *)
(* code-point order of str comparison are computed, not assumed).  Python  *)
(* values held in a DataFrame cell or in a result record are tagged        *)
(* records (PyStr, PyNum, NaN, None).  A call that may raise returns a     *)
(* record [raised, exc, val].                                              *)
(*                                                                         *)
(* app.py as committed has lines 37-50 (the weights download and the three *)
(* load_* calls) dedented out of create_app; the model reads the file in   *)
(* the order it is written: the three loads, then the handlers.            *)
(***************************************************************************)
EXTENDS Integers, Sequences, FiniteSets, TLC

VARIABLES
    trainFile,   \* train.csv on disk (cfg.train_csv_path)
    taxFile,     \* taxonomy.csv on disk (cfg.taxonomy_csv_path)
    modelFile,   \* TRUE iff cfg.model_path exists
    tempFiles,   \* names of the files present in the temp directory
    pc,          \* position of the process / of the operation under check
    class_list,  \* app.py: class_list   (shared, built at startup)
    taxonomy,    \* app.py: taxonomy     (shared, built at startup)
    model,       \* app.py: model        (shared, built at startup)
    request,     \* the inputs of the last /api/predict request
    response,    \* the response of the last /api/predict request
    trace,       \* what the last request did (temp file, k handed on, ...)
    reqCount,    \* number of requests served so far
    failures,    \* number of requests answered 500 so far
    arg,         \* inputs of the operation applied in a unit specification
    ret          \* its result

vars == <<trainFile, taxFile, modelFile, tempFiles, pc, class_list, taxonomy,
          model, request, response, trace, reqCount, failures, arg, ret>>

(***************************************************************************)
(* Bounds of the model                                                     *)
(***************************************************************************)
MaxTrainRows == 3
MaxTaxRows == 2
MaxClasses == 3
MaxProb == 2
MaxTop == 2
MaxSpec == 4
MaxMels == 5
MaxSamples == 6
MaxHop == 2
MaxFormLen == 2
MaxRequests == 2

(***************************************************************************)
(* Program constants                                                       *)
(***************************************************************************)
DefaultNumClasses == 264
TopKMin == 1
TopKMax == 50
DefaultSpecSize == 224
DefaultNMels == 224
DefaultSampleRate == 32000
DefaultHopLength == 320

(***************************************************************************)
(* Python values                                                           *)
(***************************************************************************)
PyStr(s) == [tag |-> "str", str |-> s, num |-> 0]
PyNum(n) == [tag |-> "num", str |-> <<>>, num |-> n]
NaN == [tag |-> "nan", str |-> <<>>, num |-> 0]
None == [tag |-> "none", str |-> <<>>, num |-> 0]

Ok(v) == [raised |-> FALSE, exc |-> "", val |-> v]
Raise(e) == [raised |-> TRUE, exc |-> e, val |-> <<>>]

Min(a, b) == IF a <= b THEN a ELSE b
Max(a, b) == IF a >= b THEN a ELSE b

\* The text "nan": what astype(str) makes of a missing value.
NanText == <<110, 97, 110>>

\* str(i) for a natural number: its decimal digits.
RECURSIVE PyStrOfNat(_)
PyStrOfNat(n) ==
    IF n < 10 THEN <<48 + n>> ELSE Append(PyStrOfNat(n \div 10), 48 + (n % 10))

\* Python's str < str: lexicographic on code points, a proper prefix first.
RECURSIVE StrLess(_, _)
StrLess(a, b) ==
    IF b = <<>> THEN FALSE
    ELSE IF a = <<>> THEN TRUE
    ELSE IF Head(a) # Head(b) THEN Head(a) < Head(b)
    ELSE StrLess(Tail(a), Tail(b))

\* The sort key of load_class_list: (len(x), x), compared as Python tuples.
KeyLess(a, b) == Len(a) < Len(b) \/ (Len(a) = Len(b) /\ StrLess(a, b))

(***************************************************************************)
(* CSV files and DataFrames                                                *)
(***************************************************************************)
\* A file is absent, empty (zero bytes) or a table: a header and rows of cell
\* texts.  read_csv of an empty cell gives NaN, of a text cell the text (the
\* label alphabet holds letters only, so no column is inferred as numeric).
AbsentFile == [kind |-> "absent", columns |-> {}, rows |-> <<>>]
EmptyFile == [kind |-> "empty", columns |-> {}, rows |-> <<>>]
TableFile(cols, rows) == [kind |-> "table", columns |-> cols, rows |-> rows]

ParseCell(text) == IF text = <<>> THEN NaN ELSE PyStr(text)

\* Series.astype(str) on one value.
AsStr(v) == IF v.tag = "nan" THEN NanText ELSE v.str

EmptyFrame == [columns |-> {}, rows |-> <<>>]

\* DataFrame.empty: some axis has length 0.
FrameEmpty(df) == df.columns = {} \/ df.rows = <<>>

\* os.path.exists(path)
Exists(file) == file.kind # "absent"

\* pd.read_csv(path) / pd.read_csv(path, usecols=[...]); usecols = {} reads all.
read_csv(file, usecols) ==
    IF file.kind = "absent" THEN Raise("FileNotFoundError")
    ELSE IF file.kind = "empty" THEN Raise("EmptyDataError")
    ELSE IF ~(usecols \subseteq file.columns) THEN Raise("ValueError")
    ELSE LET cols == IF usecols = {} THEN file.columns ELSE usecols
         IN  Ok([columns |-> cols,
                 rows |-> [i \in 1..Len(file.rows) |->
                             [c \in cols |-> ParseCell(file.rows[i][c])]]])

\* df[col].astype(str) written back into df
AstypeStrColumn(df, col) ==
    [df EXCEPT !.rows = [i \in 1..Len(df.rows) |->
                           [df.rows[i] EXCEPT ![col] = PyStr(AsStr(@))]]]

load_taxonomy(file) ==
    IF ~Exists(file) THEN Ok(EmptyFrame)
    ELSE LET r == read_csv(file, {})
         IN  IF r.raised THEN r
             ELSE IF "primary_label" \in r.val.columns
                  THEN Ok(AstypeStrColumn(r.val, "primary_label"))
                  ELSE r

\* The label column without the deduplication.
Unique_KeepAll(s) == s

\* Series.unique(): the distinct values in order of first appearance.
RECURSIVE Unique(_)
Unique(s) ==
    IF s = <<>> THEN <<>>
    ELSE LET front == Unique(SubSeq(s, 1, Len(s) - 1))
             last == s[Len(s)]
         IN  IF \E i \in 1..Len(front) : front[i] = last
             THEN front ELSE Append(front, last)

\* sorted(labels, key=lambda x: (len(x), x)): a stable insertion of each
\* element after the elements whose key is not greater.
RECURSIVE InsertByKey(_, _)
InsertByKey(sorted, x) ==
    IF sorted = <<>> THEN <<x>>
    ELSE LET last == sorted[Len(sorted)]
         IN  IF KeyLess(x, last)
             THEN Append(InsertByKey(SubSeq(sorted, 1, Len(sorted) - 1), x), last)
             ELSE Append(sorted, x)

RECURSIVE SortedByKey(_)
SortedByKey(s) ==
    IF s = <<>> THEN <<>>
    ELSE InsertByKey(SortedByKey(SubSeq(s, 1, Len(s) - 1)), s[Len(s)])

\* df["primary_label"].astype(str).unique().tolist()
LabelColumn(df) == Unique([i \in 1..Len(df.rows) |-> AsStr(df.rows[i]["primary_label"])])

\* tuple(str(i) for i in range(264))
FallbackClassList == [i \in 1..DefaultNumClasses |-> PyStrOfNat(i - 1)]

load_class_list(train, tax) ==
    IF ~Exists(train)
    THEN LET t == load_taxonomy(tax)
         IN  IF t.raised THEN t
             ELSE IF FrameEmpty(t.val) \/ "primary_label" \notin t.val.columns
                  THEN Ok(FallbackClassList)
                  ELSE Ok(SortedByKey(LabelColumn(t.val)))
    ELSE LET r == read_csv(train, {"primary_label"})
         IN  IF r.raised THEN r
             ELSE Ok(SortedByKey(LabelColumn(r.val)))

(***************************************************************************)
(* Startup: load_model                                                     *)
(***************************************************************************)
\* create_model(num_classes) and the lenient weight restore: the model is an
\* opaque scorer with one output per class.
load_model(exists, classes) ==
    IF ~exists THEN Raise("FileNotFoundError")
    ELSE Ok([num_classes |-> Len(classes), training |-> FALSE])

(***************************************************************************)
(* FeatureExtractor: the shape of the tensor                               *)
(***************************************************************************)
\* librosa.feature.melspectrogram (center=True): n_mels rows and
\* 1 + len(y) // hop_length frames; unsqueeze(0).unsqueeze(0) makes it 4-D.
MelShape(cfg, num_samples) ==
    <<1, 1, cfg.n_mels, 1 + (num_samples \div cfg.hop_length)>>

\* torch.nn.functional.pad(x, (0, amount)): trailing pad of the last axis.
PadLast(shape, amount) == [shape EXCEPT ![4] = @ + amount]

\* The crop left out.
CropLast_None(shape, size) == shape

\* x[:, :, :, :size]
CropLast(shape, size) == [shape EXCEPT ![4] = Min(@, size)]

\* torch.nn.functional.interpolate(x, size=(h, w)): batch and channel kept.
Interpolate(shape, h, w) == <<shape[1], shape[2], h, w>>

preprocess_audio_to_tensor(cfg, num_samples) ==
    LET x0 == MelShape(cfg, num_samples)
        x1 == IF x0[4] < cfg.spec_size
              THEN PadLast(x0, cfg.spec_size - x0[4]) ELSE x0
        x2 == CropLast(x1, cfg.spec_size)
        x3 == IF x2[3] # cfg.spec_size
              THEN Interpolate(x2, cfg.spec_size, cfg.spec_size) ELSE x2
    IN  [x |-> x3, sr |-> cfg.sample_rate, num_samples |-> num_samples]

\* InferenceConfig() as create_app builds it (only the paths are overridden).
DefaultConfig ==
    [sample_rate |-> DefaultSampleRate, hop_length |-> DefaultHopLength,
     n_mels |-> DefaultNMels, spec_size |-> DefaultSpecSize]

(***************************************************************************)
(* TopKSelector                                                            *)
(***************************************************************************)
\* probs is the flat softmax output, a sequence whose element i+1 is the
\* probability of class index i, given as a level 0..MaxProb (only the order
\* and the ties of the values are read by the selection).
\*
\* probs.argsort(): a permutation of the indices 0..n-1 along which the values
\* ascend.  numpy's default sort kind is not stable, so the order of equal
\* values is whatever the build's sort produces: any such permutation.
IsArgsort(order, probs) ==
    /\ Len(order) = Len(probs)
    /\ \A i \in 0..(Len(probs) - 1) : \E r \in 1..Len(order) : order[r] = i
    /\ \A r \in 1..Len(order), q \in 1..Len(order) :
          r < q => probs[order[r] + 1] <= probs[order[q] + 1]

ArgsortOutcomes(probs) ==
    {o \in [1..Len(probs) -> 0..(Len(probs) - 1)] : IsArgsort(o, probs)}

\* a[start:] with Python's treatment of a negative or too large start.
SliceFrom(a, start) ==
    LET n == Len(a)
        lo == IF start < 0 THEN Max(0, n + start) ELSE Min(start, n)
    IN  SubSeq(a, lo + 1, n)

\* a[::-1]
Reversed(a) == [i \in 1..Len(a) |-> a[Len(a) + 1 - i]]

\* The first top_k entries of the ascending order instead of the last.
predict_topk_Smallest(probs, order, top_k) ==
    LET idx == Reversed(SubSeq(order, 1, Min(top_k, Len(order))))
    IN  [idx |-> idx, probs |-> [j \in 1..Len(idx) |-> probs[idx[j] + 1]]]

\* The [::-1] left out.
predict_topk_NoReverse(probs, order, top_k) ==
    LET idx == SliceFrom(order, 0 - top_k)
    IN  [idx |-> idx, probs |-> [j \in 1..Len(idx) |-> probs[idx[j] + 1]]]

predict_topk(probs, order, top_k) ==
    LET idx == Reversed(SliceFrom(order, 0 - top_k))
    IN  [idx |-> idx, probs |-> [j \in 1..Len(idx) |-> probs[idx[j] + 1]]]

(***************************************************************************)
(* ResultAssembler                                                         *)
(***************************************************************************)
\* The text "class_"
ClassPrefix == <<99, 108, 97, 115, 115, 95>>

\* class_list[i] if i < len(class_list) else f"class_{i}"
LabelOf(classes, i) ==
    IF i < Len(classes) THEN classes[i + 1] ELSE ClassPrefix \o PyStrOfNat(i)

\* The rows of `right` whose key equals that of the left row, in right's order.
RECURSIVE Matches(_, _, _)
Matches(rightRows, key, v) ==
    IF rightRows = <<>> THEN <<>>
    ELSE LET rest == Matches(SubSeq(rightRows, 1, Len(rightRows) - 1), key, v)
             last == rightRows[Len(rightRows)]
         IN  IF last[key] = v THEN Append(rest, last) ELSE rest

\* An inner join: a left row that matches nothing is dropped.
JoinRow_Inner(l, right, key, cols) ==
    LET ms == Matches(right.rows, key, l[key])
    IN  [m \in 1..Len(ms) |->
           [c \in cols |-> IF c \in DOMAIN l THEN l[c] ELSE ms[m][c]]]

\* One left row joined with right: one output row per matching right row, or
\* one row with NaN in right's columns when nothing matches.
JoinRow(l, right, key, cols) ==
    LET ms == Matches(right.rows, key, l[key])
    IN  IF ms = <<>>
        THEN <<[c \in cols |-> IF c \in DOMAIN l THEN l[c] ELSE NaN]>>
        ELSE [m \in 1..Len(ms) |->
                [c \in cols |-> IF c \in DOMAIN l THEN l[c] ELSE ms[m][c]]]

\* left.merge(right, on=key, how="left"): left's row order is kept.  (The
\* tables of the model share no column but the key, so no _x/_y suffixes.)
RECURSIVE JoinRows(_, _, _, _)
JoinRows(leftRows, right, key, cols) ==
    IF leftRows = <<>> THEN <<>>
    ELSE JoinRows(SubSeq(leftRows, 1, Len(leftRows) - 1), right, key, cols)
         \o JoinRow(leftRows[Len(leftRows)], right, key, cols)

MergeLeft(left, right, key) ==
    LET cols == left.columns \cup right.columns
    IN  [columns |-> cols, rows |-> JoinRows(left.rows, right, key, cols)]

\* df.replace({np.nan: None})
ReplaceNaN(df) ==
    [df EXCEPT !.rows = [i \in 1..Len(df.rows) |->
        [c \in df.columns |->
            IF df.rows[i][c].tag = "nan" THEN None ELSE df.rows[i][c]]]]

\* df["confidence_pct"] = (df["confidence"] * 100).round(2); a probability
\* level times 100 is a whole number, which round(2) leaves alone.
WithConfidencePct(df) ==
    [columns |-> df.columns \cup {"confidence_pct"},
     rows |-> [i \in 1..Len(df.rows) |->
        [c \in df.columns \cup {"confidence_pct"} |->
            IF c = "confidence_pct"
            THEN PyNum(df.rows[i]["confidence"].num * 100)
            ELSE df.rows[i][c]]]]

\* Returns df.to_dict(orient="records"): one mapping per row.
build_results(top_idx, top_probs, classes, tax) ==
    LET df0 == [columns |-> {"primary_label", "confidence"},
                rows |-> [j \in 1..Len(top_idx) |->
                    [c \in {"primary_label", "confidence"} |->
                        IF c = "primary_label"
                        THEN PyStr(LabelOf(classes, top_idx[j]))
                        ELSE PyNum(top_probs[j])]]]
        df1 == IF ~FrameEmpty(tax) /\ "primary_label" \in tax.columns
               THEN MergeLeft(df0, tax, "primary_label") ELSE df0
    IN  ReplaceNaN(WithConfidencePct(df1)).rows

(***************************************************************************)
(* The /api/predict handler                                                *)
(***************************************************************************)
\* int(text) for a text over the characters of the model: an optional sign
\* followed by at least one decimal digit, anything else is a ValueError.
IsDigit(c) == c \in 48..57

RECURSIVE DigitsValue(_)
DigitsValue(s) ==
    IF s = <<>> THEN 0
    ELSE 10 * DigitsValue(SubSeq(s, 1, Len(s) - 1)) + (s[Len(s)] - 48)

PyInt(text) ==
    LET signed == text # <<>> /\ Head(text) \in {43, 45}
        digits == IF signed THEN Tail(text) ELSE text
    IN  IF digits = <<>> \/ \E i \in 1..Len(digits) : ~IsDigit(digits[i])
        THEN Raise("ValueError")
        ELSE Ok(IF signed /\ Head(text) = 45
                THEN 0 - DigitsValue(digits) ELSE DigitsValue(digits))

\* request.form.get("top_k", "5")
FormGet(form) == IF form.present THEN form.text ELSE <<53>>

\* A top_k clamped from below only.
ClampTopK_NoUpper(n) == Max(TopKMin, n)

\* max(1, min(top_k, 50))
ClampTopK(n) == Max(TopKMin, Min(n, TopKMax))

\* The step of the pipeline at which the environment makes the request fail
\* ("none": it does not), and the exception that step raises.
Faults ==
    {"none", "read", "create", "write", "decode", "transform", "score",
     "select", "assemble", "jsonify"}

ExcOf(fault) ==
    CASE fault \in {"read", "create", "write"} -> "OSError"
      [] fault = "decode" -> "NoBackendError"
      [] fault = "transform" -> "ParameterError"
      [] fault = "score" -> "RuntimeError"
      [] fault = "select" -> "IndexError"
      [] fault = "assemble" -> "KeyError"
      [] OTHER -> "TypeError"

\* tempfile.NamedTemporaryFile(delete=False) creates the file `name`; leaving
\* the with block closes it and keeps it, also when tmp.write raises.  No
\* path (0) is returned when the call raises.
save_bytes_to_temp(fault, files, name) ==
    IF fault = "create"
    THEN [raised |-> TRUE, exc |-> ExcOf(fault), path |-> 0, files |-> files]
    ELSE IF fault = "write"
    THEN [raised |-> TRUE, exc |-> ExcOf(fault), path |-> 0,
          files |-> files \cup {name}]
    ELSE [raised |-> FALSE, exc |-> "", path |-> name, files |-> files \cup {name}]

NoPayload == [top_k |-> 0, sample_rate |-> 0, num_samples |-> 0, results |-> <<>>]

BodyRaised(exc, path, files, created, called, k) ==
    [raised |-> TRUE, exc |-> exc, temp_path |-> path, files |-> files,
     created |-> created, coreCalled |-> called, coreK |-> k,
     payload |-> NoPayload]

\* The try block of predict (app.py 86-99).
TryBody(env, top_k, files, name, classes, tax) ==
    IF env.fault = "read"
    THEN BodyRaised(ExcOf(env.fault), 0, files, {}, FALSE, 0)
    ELSE LET s == save_bytes_to_temp(env.fault, files, name)
             made == s.files \ files
         IN
    IF s.raised
    THEN BodyRaised(s.exc, 0, s.files, made, FALSE, 0)
    ELSE IF env.fault \in {"decode", "transform"}
    THEN BodyRaised(ExcOf(env.fault), s.path, s.files, made, FALSE, 0)
    ELSE LET pre == preprocess_audio_to_tensor(DefaultConfig, env.num_samples)
         IN
    IF env.fault \in {"score", "select"}
    THEN BodyRaised(ExcOf(env.fault), s.path, s.files, made, TRUE, top_k)
    ELSE LET sel == predict_topk(env.probs, env.order, top_k)
         IN
    IF env.fault \in {"assemble", "jsonify"}
    THEN BodyRaised(ExcOf(env.fault), s.path, s.files, made, TRUE, top_k)
    ELSE [raised |-> FALSE, exc |-> "", temp_path |-> s.path, files |-> s.files,
          created |-> made, coreCalled |-> TRUE, coreK |-> top_k,
          payload |-> [top_k |-> top_k, sample_rate |-> pre.sr,
                       num_samples |-> pre.num_samples,
                       results |-> build_results(sel.idx, sel.probs, classes, tax)]]

Json(status, error, hasResults, payload) ==
    [escaped |-> FALSE, status |-> status, error |-> error,
     hasResults |-> hasResults, payload |-> payload]

\* The exception leaves the handler (Flask answers with its own error page).
Escaped(exc) ==
    [escaped |-> TRUE, status |-> 500, error |-> exc, hasResults |-> FALSE,
     payload |-> NoPayload]

\* The classes of the model are all subclasses of Exception.
ExceptionClasses ==
    {"OSError", "NoBackendError", "ParameterError", "RuntimeError",
     "IndexError", "KeyError", "TypeError", "ValueError"}

\* A narrower handler: except (OSError, ValueError).
ExceptClause_Narrow(body) ==
    IF ~body.raised THEN Json(200, "", TRUE, body.payload)
    ELSE IF body.exc \in {"OSError", "ValueError"}
         THEN Json(500, body.exc, TRUE, NoPayload)
         ELSE Escaped(body.exc)

\* return jsonify(payload) / except Exception as e: return jsonify({"error":
\* str(e), "results": []}), 500
ExceptClause(body) ==
    IF ~body.raised THEN Json(200, "", TRUE, body.payload)
    ELSE IF body.exc \in ExceptionClasses
         THEN Json(500, body.exc, TRUE, NoPayload)
         ELSE Escaped(body.exc)

\* The finally block: unlink temp_path if it is set and exists; an OSError of
\* os.unlink is swallowed and the file stays.
FinallyClause(body, unlinkFails) ==
    IF body.temp_path # 0 /\ body.temp_path \in body.files
    THEN IF unlinkFails THEN body.files ELSE body.files \ {body.temp_path}
    ELSE body.files

NoTrace ==
    [parsed |-> FALSE, n |-> 0, top_k |-> 0, created |-> {}, coreCalled |-> FALSE,
     coreK |-> 0, raised |-> FALSE, fault |-> "none"]

predict(req, env, files, name, classes, tax) ==
    IF ~req.hasFile
    THEN [response |-> Json(400, "missing file", FALSE, NoPayload),
          files |-> files, trace |-> NoTrace]
    ELSE IF ~req.hasName
    THEN [response |-> Json(400, "empty upload", FALSE, NoPayload),
          files |-> files, trace |-> NoTrace]
    ELSE LET p == PyInt(FormGet(req.form))
         IN
    IF p.raised
    THEN [response |-> Json(400, "top_k must be an integer", FALSE, NoPayload),
          files |-> files, trace |-> NoTrace]
    ELSE LET top_k == ClampTopK(p.val)
             body == TryBody(env, top_k, files, name, classes, tax)
         IN  [response |-> ExceptClause(body),
              files |-> FinallyClause(body, env.unlinkFails),
              trace |-> [parsed |-> TRUE, n |-> p.val, top_k |-> top_k,
                         created |-> body.created,
                         coreCalled |-> body.coreCalled, coreK |-> body.coreK,
                         raised |-> body.raised, fault |-> env.fault]]

(***************************************************************************)
(* Inputs                                                                  *)
(***************************************************************************)
SeqsUpTo(S, n) == UNION {[1..m -> S] : m \in 0..n}

\* The labels "a", "b" and "ab": "b" sorts before "ab" by (length, value)
\* and after it by value alone.
LabelTexts == {<<97>>, <<98>>, <<97, 98>>}
LabelCells == LabelTexts \cup {<<>>}
NameCells == {<<>>, <<120>>}

TrainFiles ==
    {AbsentFile, EmptyFile}
    \cup {TableFile({"primary_label"}, rows) :
            rows \in SeqsUpTo([primary_label : LabelCells], MaxTrainRows)}
    \cup {TableFile({"species"}, rows) : rows \in SeqsUpTo([species : NameCells], 1)}

TaxFiles ==
    {AbsentFile, EmptyFile}
    \cup {TableFile({"primary_label", "common_name"}, rows) :
            rows \in SeqsUpTo([primary_label : LabelTexts, common_name : NameCells],
                              MaxTaxRows)}
    \cup {TableFile({"common_name"}, rows) :
            rows \in SeqsUpTo([common_name : NameCells], MaxTaxRows)}

\* Softmax outputs are positive: levels 1..MaxProb.
ProbVectors(n) == [1..n -> 1..MaxProb]

Idle == <<>>

\* The variables of the server, at rest in a unit specification.
ServerIdle ==
    /\ modelFile = FALSE
    /\ tempFiles = {}
    /\ model = Idle
    /\ request = Idle
    /\ response = Idle
    /\ trace = Idle
    /\ reqCount = 0
    /\ failures = 0

(***************************************************************************)
(* SpecClassIndex: load_class_list on every label and taxonomy source      *)
(***************************************************************************)
InitClassIndex ==
    /\ trainFile \in TrainFiles
    /\ taxFile \in TaxFiles
    /\ pc = "start"
    /\ class_list = Idle
    /\ taxonomy = Idle
    /\ arg = Idle
    /\ ret = Idle
    /\ ServerIdle

BuildClassIndex ==
    /\ pc = "start"
    /\ ret' = load_class_list(trainFile, taxFile)
    /\ pc' = "done"
    /\ UNCHANGED <<trainFile, taxFile, modelFile, tempFiles, class_list, taxonomy,
                   model, request, response, trace, reqCount, failures, arg>>

NextClassIndex == BuildClassIndex

SpecClassIndex == InitClassIndex /\ [][NextClassIndex]_vars

(***************************************************************************)
(* SpecTopK: predict_topk on every probability vector and every k          *)
(***************************************************************************)
InitTopK ==
    /\ \E n \in 1..MaxClasses : \E p \in ProbVectors(n) : \E k \in TopKMin..TopKMax :
          arg = [probs |-> p, top_k |-> k, order |-> Idle]
    /\ pc = "start"
    /\ trainFile = AbsentFile
    /\ taxFile = AbsentFile
    /\ class_list = Idle
    /\ taxonomy = Idle
    /\ ret = Idle
    /\ ServerIdle

SelectTopK ==
    /\ pc = "start"
    /\ \E order \in ArgsortOutcomes(arg.probs) :
          /\ arg' = [arg EXCEPT !.order = order]
          /\ ret' = predict_topk(arg.probs, order, arg.top_k)
    /\ pc' = "done"
    /\ UNCHANGED <<trainFile, taxFile, modelFile, tempFiles, class_list, taxonomy,
                   model, request, response, trace, reqCount, failures>>

NextTopK == SelectTopK

SpecTopK == InitTopK /\ [][NextTopK]_vars

(***************************************************************************)
(* SpecAssemble: build_results on every selection and taxonomy             *)
(***************************************************************************)
\* Class lists as load_class_list leaves them: distinct, sorted by the key.
AssembleClassLists ==
    {<<(<<97>>)>>, <<(<<97>>), (<<98>>)>>, <<(<<97>>), (<<98>>), (<<97, 98>>)>>}

\* A selection: distinct indices (one past the class list included, the case
\* build_results guards against) with non-increasing probabilities.
Selections(n) ==
    {sel \in UNION {[top_idx : [1..m -> 0..n], top_probs : [1..m -> 1..MaxProb]] :
                      m \in 1..MaxTop} :
        /\ \A i, j \in DOMAIN sel.top_idx : i # j => sel.top_idx[i] # sel.top_idx[j]
        /\ \A i, j \in DOMAIN sel.top_probs :
              i < j => sel.top_probs[i] >= sel.top_probs[j]}

InitAssemble ==
    /\ taxFile \in {f \in TaxFiles : ~load_taxonomy(f).raised}
    /\ taxonomy = load_taxonomy(taxFile).val
    /\ class_list \in AssembleClassLists
    /\ arg \in Selections(Len(class_list))
    /\ pc = "start"
    /\ trainFile = AbsentFile
    /\ ret = Idle
    /\ ServerIdle

Assemble ==
    /\ pc = "start"
    /\ ret' = build_results(arg.top_idx, arg.top_probs, class_list, taxonomy)
    /\ pc' = "done"
    /\ UNCHANGED <<trainFile, taxFile, modelFile, tempFiles, class_list, taxonomy,
                   model, request, response, trace, reqCount, failures, arg>>

NextAssemble == Assemble

SpecAssemble == InitAssemble /\ [][NextAssemble]_vars

(***************************************************************************)
(* SpecExtract: preprocess_audio_to_tensor on every config and duration    *)
(***************************************************************************)
InitExtract ==
    /\ \E s \in 1..MaxSpec : \E m \in 1..MaxMels : \E h \in 1..MaxHop :
       \E ns \in 1..MaxSamples :
          arg = [cfg |-> [sample_rate |-> DefaultSampleRate, hop_length |-> h,
                          n_mels |-> m, spec_size |-> s],
                 num_samples |-> ns]
    /\ pc = "start"
    /\ trainFile = AbsentFile
    /\ taxFile = AbsentFile
    /\ class_list = Idle
    /\ taxonomy = Idle
    /\ ret = Idle
    /\ ServerIdle

Extract ==
    /\ pc = "start"
    /\ ret' = preprocess_audio_to_tensor(arg.cfg, arg.num_samples)
    /\ pc' = "done"
    /\ UNCHANGED <<trainFile, taxFile, modelFile, tempFiles, class_list, taxonomy,
                   model, request, response, trace, reqCount, failures, arg>>

NextExtract == Extract

SpecExtract == InitExtract /\ [][NextExtract]_vars

(***************************************************************************)
(* Spec: startup and the request handler                                   *)
(***************************************************************************)
\* The deployments of the server specification: label sources of one or two
\* classes, a source that cannot be read, with and without a taxonomy and a
\* weights file.  (The 264-class fallback is exercised by SpecClassIndex.)
TwoLabelTrain ==
    TableFile({"primary_label"},
              <<[primary_label |-> <<98>>], [primary_label |-> <<97>>]>>)

OneRowTaxonomy ==
    TableFile({"primary_label", "common_name"},
              <<[primary_label |-> <<97>>, common_name |-> <<120>>]>>)

Init ==
    /\ trainFile \in {TwoLabelTrain, AbsentFile, EmptyFile}
    /\ taxFile \in {OneRowTaxonomy, AbsentFile}
    /\ ~(trainFile = AbsentFile /\ taxFile = AbsentFile)
    /\ modelFile \in BOOLEAN
    /\ tempFiles = {}
    /\ pc = "boot"
    /\ class_list = Idle
    /\ taxonomy = Idle
    /\ model = Idle
    /\ request = Idle
    /\ response = Idle
    /\ trace = Idle
    /\ reqCount = 0
    /\ failures = 0
    /\ arg = Idle
    /\ ret = Idle

\* app.py 48-50: class_list, taxonomy and model are built in this order; an
\* exception of any of the three ends the process before it serves.
Startup ==
    /\ pc = "boot"
    /\ LET c == load_class_list(trainFile, taxFile)
           t == load_taxonomy(taxFile)
           m == IF c.raised THEN c ELSE load_model(modelFile, c.val)
       IN  IF c.raised \/ t.raised \/ m.raised
           THEN /\ pc' = "fatal"
                /\ UNCHANGED <<class_list, taxonomy, model>>
           ELSE /\ pc' = "serving"
                /\ class_list' = c.val
                /\ taxonomy' = t.val
                /\ model' = m.val
    /\ UNCHANGED <<trainFile, taxFile, modelFile, tempFiles, request, response,
                   trace, reqCount, failures, arg, ret>>

\* The decoded lengths of the uploads: two frames, and one frame more than
\* spec_size.
AudioLengths == {DefaultHopLength, DefaultHopLength * DefaultSpecSize}

FailingEnvs ==
    {[fault |-> f, unlinkFails |-> u, num_samples |-> DefaultHopLength,
      probs |-> <<>>, order |-> <<>>] :
        f \in Faults \ {"none"}, u \in BOOLEAN}

PassingEnvs(n) ==
    {[fault |-> "none", unlinkFails |-> u, num_samples |-> ns,
      probs |-> po[1], order |-> po[2]] :
        u \in BOOLEAN, ns \in AudioLengths,
        po \in UNION {{<<p, o>> : o \in ArgsortOutcomes(p)} : p \in ProbVectors(n)}}

Texts(alphabet, n) == SeqsUpTo(alphabet, n)

Forms(texts) ==
    {[present |-> FALSE, text |-> <<>>]} \cup {[present |-> TRUE, text |-> t] : t \in texts}

Requests(texts) ==
    {[hasFile |-> FALSE, hasName |-> FALSE, form |-> [present |-> FALSE, text |-> <<>>]],
     [hasFile |-> TRUE, hasName |-> FALSE, form |-> [present |-> FALSE, text |-> <<>>]]}
    \cup {[hasFile |-> TRUE, hasName |-> TRUE, form |-> f] : f \in Forms(texts)}

\* One request from arrival to response.  mkstemp names a file that does not
\* exist yet.
Predict(requests, envs) ==
    /\ pc = "serving"
    /\ reqCount < MaxRequests
    /\ \E req \in requests : \E env \in envs :
          LET out == predict(req, env, tempFiles, reqCount + 1, class_list, taxonomy)
          IN  /\ request' = req
              /\ response' = out.response
              /\ trace' = out.trace
              /\ tempFiles' = out.files
              /\ failures' = IF out.response.status = 500 THEN failures + 1 ELSE failures
    /\ reqCount' = reqCount + 1
    /\ UNCHANGED <<trainFile, taxFile, modelFile, pc, class_list, taxonomy, model,
                   arg, ret>>

\* The top_k texts of the server specification: "0", "70", "x".
FewTexts == {<<48>>, <<55, 48>>, <<120>>}

Next ==
    \/ Startup
    \/ Predict(Requests(FewTexts), FailingEnvs \cup PassingEnvs(model.num_classes))

Spec == Init /\ [][Next]_vars

(***************************************************************************)
(* SpecBoundary: the handler on every top_k text                           *)
(***************************************************************************)
\* The characters "-", "0", "7" and "x".
FormAlphabet == {45, 48, 55, 120}

BoundaryEnvs(n) ==
    {e \in FailingEnvs : e.fault \in {"read", "decode"} /\ ~e.unlinkFails}
    \cup {e \in PassingEnvs(n) :
            /\ ~e.unlinkFails
            /\ e.num_samples = DefaultHopLength
            /\ \A i \in 1..n : e.probs[i] = (i % 2) + 1}

NextBoundary ==
    \/ Startup
    \/ Predict(Requests(Texts(FormAlphabet, MaxFormLen)), BoundaryEnvs(model.num_classes))

SpecBoundary == Init /\ [][NextBoundary]_vars

(***************************************************************************)
(* Claims                                                                  *)
(***************************************************************************)
Done == pc = "done"

Descending(s) == \A i, j \in 1..Len(s) : i < j => s[i] >= s[j]
Distinct(s) == \A i, j \in 1..Len(s) : i # j => s[i] # s[j]
Elements(s) == {s[i] : i \in 1..Len(s)}

\* The position of class index i in the argsort order.
OrderPos(order, i) == CHOOSE r \in 1..Len(order) : order[r] = i

\* The argsort order is the stable one: equal values in ascending index order.
StableOrder(order, probs) ==
    \A r, q \in 1..Len(order) :
        (r < q /\ probs[order[r] + 1] = probs[order[q] + 1]) => order[r] < order[q]

\* What C1 says of a selection of `len` entries.
TopKContract(len) ==
    /\ Len(ret.idx) = len
    /\ Len(ret.probs) = len
    /\ Descending(ret.probs)
    /\ Distinct(ret.idx)
    /\ \A j \in 1..Len(ret.idx) :
          /\ ret.idx[j] \in 0..(Len(arg.probs) - 1)
          /\ ret.probs[j] = arg.probs[ret.idx[j] + 1]
    /\ \A i \in 0..(Len(arg.probs) - 1) :
          i \notin Elements(ret.idx) =>
              \A j \in 1..Len(ret.probs) : arg.probs[i + 1] <= ret.probs[j]

\* C1 as stated: predict_topk returns exactly k entries, scores descending,
\* indices pairwise distinct members of 0..len(probs)-1, for every k in
\* [1,50] and every class-index length, also one shorter than k.
C1_ExactlyK == Done => TopKContract(arg.top_k)

\* C1 amended: predict_topk returns exactly min(k, len(probs)) entries: the
\* largest values, scores descending, indices pairwise distinct members of
\* 0..len(probs)-1.
C1_MinOfKAndClasses == Done => TopKContract(Min(arg.top_k, Len(arg.probs)))

\* A selection from a class index shorter than k.
C1_ShortIndexSelected ==
    Done /\ Len(arg.probs) < arg.top_k /\ Len(ret.idx) = Len(arg.probs)
         /\ Len(arg.probs) > 1

\* C10 as stated: among the selected entries with equal probability the
\* entry with the lower class index comes first.
C10_LowerIndexFirst ==
    Done => \A i, j \in 1..Len(ret.idx) :
                (i < j /\ ret.probs[i] = ret.probs[j]) => ret.idx[i] < ret.idx[j]

\* C10 amended: ties come out in the reverse of the order argsort gave them:
\* of two selected entries with equal probability the one argsort placed
\* later comes first, so under a stable argsort the HIGHER class index comes
\* first.
C10_TiesReverseArgsort ==
    Done => \A i, j \in 1..Len(ret.idx) :
                (i < j /\ ret.probs[i] = ret.probs[j]) =>
                    /\ OrderPos(arg.order, ret.idx[i]) > OrderPos(arg.order, ret.idx[j])
                    /\ StableOrder(arg.order, arg.probs) => ret.idx[i] > ret.idx[j]

\* Two tied entries selected under a stable argsort.
C10_TieSelected ==
    /\ Done
    /\ StableOrder(arg.order, arg.probs)
    /\ \E i, j \in 1..Len(ret.idx) : i < j /\ ret.probs[i] = ret.probs[j]

\* C2 as stated: load_class_list never raises, whatever the state of the
\* label source and of the taxonomy source.
C2_NeverRaises == Done => ~ret.raised

\* The text of a cell as a label: the cell, or "nan" for an empty cell.
CellLabel(text) == IF text = <<>> THEN <<110, 97, 110>> ELSE text

SourceLabels(file) == {CellLabel(file.rows[i]["primary_label"]) : i \in 1..Len(file.rows)}

HasLabels(file) == file.kind = "table" /\ "primary_label" \in file.columns

\* s lists exactly the labels of S, each once, ascending by (length, value).
IsIndexOf(s, S) ==
    /\ Elements(s) = S
    /\ \A i, j \in 1..Len(s) :
          i < j => \/ Len(s[i]) < Len(s[j])
                   \/ (Len(s[i]) = Len(s[j]) /\ StrLess(s[i], s[j]))

C6_FixedShape ==
    Done => ret.x = <<1, 1, arg.cfg.spec_size, arg.cfg.spec_size>>

\* A clip with more frames than spec_size whose mel-band count needs no resize.
C6_LongClipCropped ==
    /\ Done
    /\ MelShape(arg.cfg, arg.num_samples)[4] > arg.cfg.spec_size
    /\ arg.cfg.n_mels = arg.cfg.spec_size
    /\ ret.x[4] = arg.cfg.spec_size

\* C3 as stated: build_results returns one record per selected index, the
\* i-th carrying the label and the confidence of the i-th selected index, for
\* every taxonomy table.
C3_OneRecordPerIndex ==
    Done =>
      /\ Len(ret) = Len(arg.top_idx)
      /\ \A i \in 1..Len(ret) :
            /\ ret[i]["primary_label"] = PyStr(LabelOf(class_list, arg.top_idx[i]))
            /\ ret[i]["confidence"] = PyNum(arg.top_probs[i])

\* The selected label j has no row in the taxonomy.
Unmatched(j) ==
    \A r \in 1..Len(taxonomy.rows) :
        "primary_label" \in taxonomy.columns =>
            taxonomy.rows[r]["primary_label"]
                # PyStr(LabelOf(class_list, arg.top_idx[j]))

\* The records emitted for the selected label j.
RecordsOf(j) ==
    {i \in 1..Len(ret) :
        ret[i]["primary_label"] = PyStr(LabelOf(class_list, arg.top_idx[j]))}

TaxonomyOnly == taxonomy.columns \ {"primary_label"}

\* C4 as stated: a selected label with no taxonomy row is emitted with
\* non-null label and confidence and with every taxonomy-only field present
\* as a key whose value is null.
C4_NullFieldsPresent ==
    Done => \A j \in 1..Len(arg.top_idx) :
              Unmatched(j) =>
                /\ RecordsOf(j) # {}
                /\ \A i \in RecordsOf(j) :
                      /\ ret[i]["confidence"] = PyNum(arg.top_probs[j])
                      /\ \A c \in TaxonomyOnly :
                            c \in DOMAIN ret[i] /\ ret[i][c] = None

\* build_results joins: the taxonomy has a row and a label column.
Joined == ~FrameEmpty(taxonomy) /\ "primary_label" \in taxonomy.columns

\* C4 amended: a selected label with no taxonomy row is emitted exactly once,
\* with non-null label and confidence and no NaN; when the taxonomy has a row
\* and a label column every taxonomy-only field is a key with value null, and
\* otherwise (no rows, or no label column) the record has no taxonomy field.
C4_NullFieldsWhenJoined ==
    Done => \A j \in 1..Len(arg.top_idx) :
              Unmatched(j) =>
                /\ Cardinality(RecordsOf(j)) = 1
                /\ \A i \in RecordsOf(j) :
                      /\ ret[i]["confidence"] = PyNum(arg.top_probs[j])
                      /\ \A c \in DOMAIN ret[i] : ret[i][c].tag # "nan"
                      /\ Joined => \A c \in TaxonomyOnly :
                                      c \in DOMAIN ret[i] /\ ret[i][c] = None
                      /\ ~Joined => \A c \in TaxonomyOnly : c \notin DOMAIN ret[i]

\* A selection with one label the taxonomy knows and one it does not.
C4_UnmatchedBesideMatched ==
    /\ Done
    /\ Joined
    /\ \E j, k \in 1..Len(arg.top_idx) : Unmatched(j) /\ ~Unmatched(k)
    /\ \E i \in 1..Len(ret) : ret[i]["common_name"] = None

Served == pc = "serving" /\ reqCount > 0

\* C7 as stated: whatever step fails, no temporary file the request created
\* exists once the request has completed.
C7_TempFileReleased == Served => trace.created \cap tempFiles = {}

C9_TopKClamped ==
    Served =>
      IF request.hasFile /\ request.hasName
      THEN LET p == PyInt(FormGet(request.form))
           IN  IF p.raised
               THEN /\ response.status = 400
                    /\ response.error = "top_k must be an integer"
                    /\ ~trace.coreCalled
               ELSE /\ trace.top_k \in 1..50
                    /\ p.val <= 1 => trace.top_k = 1
                    /\ p.val >= 50 => trace.top_k = 50
                    /\ p.val \in 1..50 => trace.top_k = p.val
                    /\ trace.coreCalled => trace.coreK = trace.top_k
                    /\ ~trace.raised => response.payload.top_k = trace.top_k
      ELSE ~trace.coreCalled

\* A request with a top_k above 50 that reached predict_topk.
C9_LargeTopKServed ==
    /\ Served
    /\ trace.coreCalled
    /\ trace.n > 50
    /\ trace.coreK = 50
    /\ response.status = 200

====
